---- MODULE Spec2Model ----
(***************************************************************************)
(* A model of youtube-mp3.js: the command line entry, the ytdl event       *)
(* handlers, the three q deferreds and their continuations, the ffmpeg     *)
(* event handlers, processMetadata and the tag write, and the report.      *)
(*                                                                         *)
(* Strings are sequences of one-character strings.  A value that may be    *)
(* null is None (<<>>) or Some(x) (<<x>>).  A percentage is counted in     *)
(* half percents so that Math.ceil has something to round.                 *)
(***************************************************************************)
EXTENDS Integers, Sequences, FiniteSets, TLC

VARIABLES
    args,               \* program.args: <<>> or <<url>>
    intermediate,       \* program.intermediate
    exit,               \* None while the process runs, Some(code) after it ended
    printed,            \* what console.log / outputHelp wrote, in order, as tuples
    ytdlState,          \* the position of the ytdl stream in its event protocol
    downloadCompleted,  \* q.defer() of line 50
    convertCompleted,   \* q.defer() of line 51
    metadataCompleted,  \* q.defer() of line 52
    data,               \* the Buffer of line 54
    received,           \* the chunks the 'data' handler was called with, in order
    videoMetadata,      \* None (null) or Some([title |-> t])
    videoFileName,      \* None or Some(path)
    musicFileName,      \* None or Some(path)
    totalSize,          \* Some(-1), Some(n), or None for NaN
    downloadProgress,   \* the ProgressBar of lines 63 and 82: [format, total, curr]
    files,              \* the file system: a set of [path, bytes], one per existing path
    unlinks,            \* the paths fs.unlinkSync was called with, in order
    ffmpegState,        \* the position of the ffmpeg command in its event protocol
    last,               \* var last of line 113
    reports,            \* the percents the 'progress' handler was called with
    deltas,             \* the arguments of convertProgress.tick, in order
    promptDefaults,     \* None or Some(the defaults processMetadata gave to prompt)
    written,            \* None or Some(the tag set given to ffMetadata.write)
    tagWrite,           \* the ffMetadata.write call: "none", "pending", "ok", "failed"
    probe,              \* the ffProbe call: "none", "pending", "done"
    stageLog            \* the stages entered so far, in order

vars == <<args, intermediate, exit, printed, ytdlState, downloadCompleted,
          convertCompleted, metadataCompleted, data, received, videoMetadata,
          videoFileName, musicFileName, totalSize, downloadProgress, files,
          unlinks, ffmpegState, last, reports, deltas, promptDefaults, written,
          tagWrite, probe, stageLog>>

----------------------------------------------------------------------------
(* Bounds of the model *)

MaxChunks == 2
MaxPipelineReports == 1
MaxReports == 7
MaxTitleLen == 4

(* Program constants *)

EXIT_USAGE == 55
EXIT_ERROR == 25
META_TOTAL == 2

----------------------------------------------------------------------------
(* Values *)

None == <<>>
Some(x) == <<x>>

TAB == "\t"
Alphabet == {"a", " ", "-", TAB}
Whitespace == {" ", TAB}

RECURSIVE StringsUpTo(_)
StringsUpTo(n) ==
    IF n = 0 THEN {<<>>}
    ELSE LET shorter == StringsUpTo(n - 1)
         IN  shorter \cup {Append(s, c) : s \in {t \in shorter : Len(t) = n - 1}, c \in Alphabet}

AllTitles == StringsUpTo(MaxTitleLen)
PipelineTitles == {<<"a", " ", "-", " ", "b">>, <<"a", "b">>}

ChunkInputs == {<<>>, <<0>>, <<1, 0>>}
ContentLengths == {None, Some(3)}
\* progress.percent in half percents: 0, 4.5, 5, 12, 100
PercentInputs == {0, 9, 10, 24, 200}
UserInputs == {<<>>, <<"x">>}

Fields == {"title", "artist", "album", "genre", "date"}

Stage == stageLog[Len(stageLog)]
Running == exit = None

----------------------------------------------------------------------------
(* q deferreds: resolve() settles a pending deferred once, and the callback *)
(* given to promise.then runs once, in a later turn, after it is settled.   *)

Resolve(d) == IF d = "pending" THEN "resolved" ELSE d

\* ThenReadyNoWait: the callback called at once instead of given to then
ThenReadyNoWait(d) == d \in {"pending", "resolved"}
ThenReady(d) == d = "resolved"

----------------------------------------------------------------------------
(* error() and warning() *)

\* ErrorNoExit: error() without its process.exit
ErrorNoExit(msg) ==
    /\ printed' = Append(printed, <<"ERROR", msg>>)
    /\ UNCHANGED exit
error(msg) ==
    /\ printed' = Append(printed, <<"ERROR", msg>>)
    /\ exit' = Some(EXIT_ERROR)

warning(msg) ==
    printed' = Append(printed, <<"WARNING", msg>>)

\* the status the process ends with, by class of outcome: line 45, error() called
\* from lines 97 and 118, and the end of the program
ExitStatus(class) ==
    CASE class = "usage" -> EXIT_USAGE
      [] class = "fetch" -> EXIT_ERROR
      [] class = "convert" -> EXIT_ERROR
      [] class = "success" -> 0

----------------------------------------------------------------------------
(* The command line and the start of the download, lines 31-97 *)

InitCommon ==
    /\ intermediate \in BOOLEAN
    /\ exit = None
    /\ printed = <<>>
    /\ ytdlState = "idle"
    /\ downloadCompleted = "pending"
    /\ convertCompleted = "pending"
    /\ metadataCompleted = "pending"
    /\ data = <<>>
    /\ received = <<>>
    /\ videoMetadata = None
    /\ videoFileName = None
    /\ musicFileName = None
    /\ totalSize = Some(-1)
    /\ downloadProgress = [format |-> "META", total |-> Some(META_TOTAL), curr |-> 0]
    /\ files = {}
    /\ unlinks = <<>>
    /\ ffmpegState = "idle"
    /\ last = 0
    /\ reports = <<>>
    /\ deltas = <<>>
    /\ promptDefaults = None
    /\ written = None
    /\ tagWrite = "none"
    /\ probe = "none"
    /\ stageLog = <<"Idle">>

Init ==
    /\ args \in {<<>>, <<"url">>}
    /\ InitCommon

\* lines 42-46: no url, print the help and exit
MissingUrl ==
    /\ Running /\ Stage = "Idle"
    /\ args = <<>>
    /\ printed' = Append(printed, <<"HELP">>)
    /\ exit' = Some(EXIT_USAGE)
    /\ UNCHANGED <<args, intermediate, ytdlState, downloadCompleted, convertCompleted,
                   metadataCompleted, data, received, videoMetadata, videoFileName,
                   musicFileName, totalSize, downloadProgress, files, unlinks,
                   ffmpegState, last, reports, deltas, promptDefaults, written,
                   tagWrite, probe, stageLog>>

\* lines 48-97: print the header, create the deferreds and open the stream
StartDownload ==
    /\ Running /\ Stage = "Idle"
    /\ args # <<>>
    /\ printed' = Append(printed, <<"HEADER">>)
    /\ ytdlState' = "opened"
    /\ stageLog' = Append(stageLog, "Fetching")
    /\ UNCHANGED <<args, intermediate, exit, downloadCompleted, convertCompleted,
                   metadataCompleted, data, received, videoMetadata, videoFileName,
                   musicFileName, totalSize, downloadProgress, files, unlinks,
                   ffmpegState, last, reports, deltas, promptDefaults, written,
                   tagWrite, probe>>

Tick(bar, n) == [bar EXCEPT !.curr = @ + n]

\* lines 73-76.  ytdl emits 'info' once, before it requests the video.
\* YtdlInfoDropped: the handler without its assignment to videoMetadata
YtdlInfoDropped(title) ==
    /\ Running /\ ytdlState = "opened"
    /\ ytdlState' = "info"
    /\ downloadProgress' = Tick(downloadProgress, 1)
    /\ UNCHANGED <<args, intermediate, exit, printed, downloadCompleted, convertCompleted,
                   metadataCompleted, data, received, videoMetadata, videoFileName,
                   musicFileName, totalSize, files, unlinks, ffmpegState, last, reports,
                   deltas, promptDefaults, written, tagWrite, probe, stageLog>>
YtdlInfo(title) ==
    /\ Running /\ ytdlState = "opened"
    /\ ytdlState' = "info"
    /\ downloadProgress' = Tick(downloadProgress, 1)
    /\ videoMetadata' = Some([title |-> title])
    /\ UNCHANGED <<args, intermediate, exit, printed, downloadCompleted, convertCompleted,
                   metadataCompleted, data, received, videoFileName, musicFileName,
                   totalSize, files, unlinks, ffmpegState, last, reports, deltas,
                   promptDefaults, written, tagWrite, probe, stageLog>>

\* lines 77-86.  'response' follows 'info'; content-length may be absent (NaN).
YtdlResponse(contentLength) ==
    /\ Running /\ ytdlState = "info"
    /\ ytdlState' = "response"
    /\ totalSize' = contentLength
    /\ downloadProgress' = [format |-> "DL", total |-> contentLength, curr |-> 0]
    /\ UNCHANGED <<args, intermediate, exit, printed, downloadCompleted, convertCompleted,
                   metadataCompleted, data, received, videoMetadata, videoFileName,
                   musicFileName, files, unlinks, ffmpegState, last, reports, deltas,
                   promptDefaults, written, tagWrite, probe, stageLog>>

\* Buffer.concat(list, totalLength): the buffers joined, cut or zero filled to totalLength
RECURSIVE Zeros(_)
Zeros(n) == IF n <= 0 THEN <<>> ELSE <<0>> \o Zeros(n - 1)

\* BufferConcatSwapped: the list given as [chunk, data]
BufferConcatSwapped(a, b, totalLength) ==
    LET joined == b \o a
    IN  IF Len(joined) >= totalLength THEN SubSeq(joined, 1, totalLength)
        ELSE joined \o Zeros(totalLength - Len(joined))
BufferConcat(a, b, totalLength) ==
    LET joined == a \o b
    IN  IF Len(joined) >= totalLength THEN SubSeq(joined, 1, totalLength)
        ELSE joined \o Zeros(totalLength - Len(joined))

\* lines 87-95
YtdlData(chunk, maxChunks) ==
    /\ Running /\ ytdlState = "response"
    /\ Len(received) < maxChunks
    /\ data' = BufferConcat(data, chunk, Len(data) + Len(chunk))
    /\ received' = Append(received, chunk)
    /\ downloadProgress' = Tick(downloadProgress, Len(chunk))
    /\ UNCHANGED <<args, intermediate, exit, printed, ytdlState, downloadCompleted,
                   convertCompleted, metadataCompleted, videoMetadata, videoFileName,
                   musicFileName, totalSize, files, unlinks, ffmpegState, last, reports,
                   deltas, promptDefaults, written, tagWrite, probe, stageLog>>

\* line 96
YtdlEnd ==
    /\ Running /\ ytdlState = "response"
    /\ ytdlState' = "ended"
    /\ downloadCompleted' = Resolve(downloadCompleted)
    /\ UNCHANGED <<args, intermediate, exit, printed, convertCompleted, metadataCompleted,
                   data, received, videoMetadata, videoFileName, musicFileName, totalSize,
                   downloadProgress, files, unlinks, ffmpegState, last, reports, deltas,
                   promptDefaults, written, tagWrite, probe, stageLog>>

\* line 97.  The stream ends with exactly one of 'end' and 'error'.
YtdlError ==
    /\ Running /\ ytdlState \in {"opened", "info", "response"}
    /\ ytdlState' = "errored"
    /\ error("Unable to download video from youtube.")
    /\ stageLog' = Append(stageLog, "FetchFailed")
    /\ UNCHANGED <<args, intermediate, downloadCompleted, convertCompleted,
                   metadataCompleted, data, received, videoMetadata, videoFileName,
                   musicFileName, totalSize, downloadProgress, files, unlinks,
                   ffmpegState, last, reports, deltas, promptDefaults, written,
                   tagWrite, probe>>

----------------------------------------------------------------------------
(* The file system *)

Path(dir, title, ext) == <<dir, title, ext>>
Exists(fs, p) == \E f \in fs : f.path = p
WriteFile(fs, p, bytes) == {f \in fs : f.path # p} \cup {[path |-> p, bytes |-> bytes]}
Unlink(fs, p) == {f \in fs : f.path # p}
\* what the transcoder leaves at its output path: a finished file, or a partial one
Transcoded == <<1>>
Partial == <<>>

----------------------------------------------------------------------------
(* The continuation of downloadCompleted, lines 100-130 *)

\* line 105
VideoDir(keep) == IF keep THEN "" ELSE "/tmp/"

DownloadThen ==
    /\ Running /\ ThenReady(downloadCompleted)
    /\ downloadCompleted' = "delivered"
    /\ stageLog' = Append(stageLog, "Transcoding")
    /\ IF videoMetadata = None
       THEN \* line 101 throws a TypeError, which q turns into a rejected promise
            UNCHANGED <<videoFileName, musicFileName, files, ffmpegState, last>>
       ELSE LET title == videoMetadata[1].title
                video == Path(VideoDir(intermediate), title, ".mp4")
            IN  /\ videoFileName' = Some(video)
                /\ musicFileName' = Some(Path("", title, ".mp3"))
                /\ files' = WriteFile(files, video, data)
                /\ ffmpegState' = "running"
                /\ last' = 0
    /\ UNCHANGED <<args, intermediate, exit, printed, ytdlState, convertCompleted,
                   metadataCompleted, data, received, videoMetadata, totalSize,
                   downloadProgress, unlinks, reports, deltas, promptDefaults, written,
                   tagWrite, probe>>

\* Math.ceil of a percentage given in half percents
Ceil(halves) == (halves + 1) \div 2
Floor(halves) == halves \div 2

\* line 121
\* ProgressDiffFloor: Math.floor in place of Math.ceil
ProgressDiffFloor(percent, lastTick) == Floor(percent) - lastTick
ProgressDiff(percent, lastTick) == Ceil(percent) - lastTick

\* lines 120-124
FfmpegProgress(percent, maxReports) ==
    /\ Running /\ ffmpegState = "running"
    /\ Len(reports) < maxReports
    /\ last' = Ceil(percent)
    /\ deltas' = Append(deltas, ProgressDiff(percent, last))
    /\ reports' = Append(reports, percent)
    /\ UNCHANGED <<args, intermediate, exit, printed, ytdlState, downloadCompleted,
                   convertCompleted, metadataCompleted, data, received, videoMetadata,
                   videoFileName, musicFileName, totalSize, downloadProgress, files,
                   unlinks, ffmpegState, promptDefaults, written, tagWrite, probe,
                   stageLog>>

\* line 126
\* ShouldUnlinkAlways: the unlink without its test of program.intermediate
ShouldUnlinkAlways(keep) == TRUE
ShouldUnlink(keep) == ~keep

\* lines 125-128.  The command ends with exactly one of 'end' and 'error'.
FfmpegEnd ==
    /\ Running /\ ffmpegState = "running"
    /\ ffmpegState' = "ended"
    /\ LET out == WriteFile(files, musicFileName[1], Transcoded)
       IN  IF ShouldUnlink(intermediate)
           THEN /\ unlinks' = Append(unlinks, videoFileName[1])
                /\ files' = Unlink(out, videoFileName[1])
           ELSE /\ unlinks' = unlinks
                /\ files' = out
    /\ convertCompleted' = Resolve(convertCompleted)
    /\ UNCHANGED <<args, intermediate, exit, printed, ytdlState, downloadCompleted,
                   metadataCompleted, data, received, videoMetadata, videoFileName,
                   musicFileName, totalSize, downloadProgress, last, reports, deltas,
                   promptDefaults, written, tagWrite, probe, stageLog>>

\* lines 117-119.  A partly written output file may be left behind.
FfmpegError ==
    /\ Running /\ ffmpegState = "running"
    /\ ffmpegState' = "errored"
    /\ error("Ffmpeg encountered an error converting video to mp3.")
    /\ stageLog' = Append(stageLog, "ConvertFailed")
    /\ \/ files' = files
       \/ files' = WriteFile(files, musicFileName[1], Partial)
    /\ UNCHANGED <<args, intermediate, ytdlState, downloadCompleted, convertCompleted,
                   metadataCompleted, data, received, videoMetadata, videoFileName,
                   musicFileName, totalSize, downloadProgress, unlinks, last, reports,
                   deltas, promptDefaults, written, tagWrite, probe>>

----------------------------------------------------------------------------
(* TITLE_REGEX = /([\S| ]+)-([\S| ]+)/, line 19, and String.prototype.trim *)

\* the character class [\S| ]: anything that is not white space, or a space
InClass(c) == c \notin Whitespace \/ c = " "

AllInClass(s, from, to) == \A j \in from..to : InClass(s[j])

SetMax(S) == CHOOSE x \in S : \A y \in S : y <= x
SetMin(S) == CHOOSE x \in S : \A y \in S : x <= y

\* the ends k of a first group s[i..k] from which the rest of the pattern matches
GroupEnds(s, i) ==
    {k \in i..(Len(s) - 2) :
        AllInClass(s, i, k) /\ s[k + 1] = "-" /\ InClass(s[k + 2])}

\* exec: the leftmost start that matches, each group as long as it can be
RegexExec(s) ==
    LET starts == {i \in 1..Len(s) : GroupEnds(s, i) # {}}
    IN  IF starts = {} THEN None
        ELSE LET i == SetMin(starts)
                 k == SetMax(GroupEnds(s, i))
                 m == SetMax({e \in (k + 2)..Len(s) : AllInClass(s, k + 2, e)})
             IN  Some([g1 |-> SubSeq(s, i, k), g2 |-> SubSeq(s, k + 2, m)])

Trim(s) ==
    LET keep == {i \in 1..Len(s) : s[i] \notin Whitespace}
    IN  IF keep = {} THEN <<>> ELSE SubSeq(s, SetMin(keep), SetMax(keep))

----------------------------------------------------------------------------
(* processMetadata, lines 159-182 *)

\* lines 160-172: the record before the prompts
\* DefaultTagsSwapped: the two groups of the match taken the other way round
DefaultTagsSwapped(title) ==
    LET m == RegexExec(title)
    IN  [title  |-> IF m = None THEN Some(title) ELSE Some(Trim(m[1].g1)),
         artist |-> IF m = None THEN None ELSE Some(Trim(m[1].g2)),
         album  |-> None,
         genre  |-> None,
         date   |-> None]
DefaultTags(title) ==
    LET m == RegexExec(title)
    IN  [title  |-> IF m = None THEN Some(title) ELSE Some(Trim(m[1].g2)),
         artist |-> IF m = None THEN None ELSE Some(Trim(m[1].g1)),
         album  |-> None,
         genre  |-> None,
         date   |-> None]

\* a value JavaScript takes for false: null, undefined or the empty string
Falsy(v) == v = None \/ v = Some(<<>>)

\* prompt(label, {required, default}) of prompt.js: the line typed, or the default
\* for a blank line, or the empty string; a required field with neither asks again
PromptAccepts(input, required, default) ==
    ~(required /\ input = <<>> /\ Falsy(default))
Prompt(input, default) ==
    IF input # <<>> THEN Some(input)
    ELSE IF ~Falsy(default) THEN default
    ELSE Some(<<>>)

\* the options of the five prompt calls, lines 175-179
Required == [title |-> TRUE, artist |-> TRUE, album |-> TRUE, genre |-> FALSE, date |-> FALSE]
PromptDefault(meta) ==
    [title |-> meta.title, artist |-> meta.artist, album |-> None, genre |-> None,
     date |-> None]

ProcessMetadata(metadata, typed) ==
    LET defaults == PromptDefault(DefaultTags(metadata.title))
    IN  [f \in Fields |-> Prompt(typed[f], defaults[f])]

AnswersFor(metadata) ==
    LET defaults == PromptDefault(DefaultTags(metadata.title))
    IN  {typed \in [Fields -> UserInputs] :
            \A f \in Fields : PromptAccepts(typed[f], Required[f], defaults[f])}

\* filter(metadata, function(val) { return !!val; }), line 136
Filter(meta) == [f \in {g \in DOMAIN meta : ~Falsy(meta[g])} |-> meta[f]]

----------------------------------------------------------------------------
(* The continuation of convertCompleted, lines 133-141 *)

ConvertThen ==
    /\ Running /\ ThenReady(convertCompleted)
    /\ convertCompleted' = "delivered"
    /\ stageLog' = Append(stageLog, "TaggingMetadata")
    /\ IF videoMetadata = None
       THEN \* line 161 throws a TypeError, which q turns into a rejected promise
            UNCHANGED <<printed, promptDefaults, written, tagWrite>>
       ELSE \E typed \in AnswersFor(videoMetadata[1]) :
                LET metadata == ProcessMetadata(videoMetadata[1], typed)
                    filtered == Filter(metadata)
                IN  /\ printed' = Append(printed, <<"Enter song metadata:">>)
                    /\ promptDefaults' = Some(PromptDefault(DefaultTags(videoMetadata[1].title)))
                    \* line 137 passes metadata, and filtered is not used
                    /\ written' = Some(metadata)
                    /\ tagWrite' = "pending"
    /\ UNCHANGED <<args, intermediate, exit, ytdlState, downloadCompleted,
                   metadataCompleted, data, received, videoMetadata, videoFileName,
                   musicFileName, totalSize, downloadProgress, files, unlinks,
                   ffmpegState, last, reports, deltas, probe>>

\* lines 137-140: the callback of ffMetadata.write
\* TagWriteCallbackFatal: error() in place of warning()
TagWriteCallbackFatal(err) ==
    /\ Running /\ tagWrite = "pending"
    /\ IF err
       THEN /\ tagWrite' = "failed"
            /\ error("Failed to write mp3 metadata.")
            /\ UNCHANGED metadataCompleted
       ELSE /\ tagWrite' = "ok"
            /\ metadataCompleted' = Resolve(metadataCompleted)
            /\ UNCHANGED <<printed, exit>>
    /\ UNCHANGED <<args, intermediate, ytdlState, downloadCompleted, convertCompleted,
                   data, received, videoMetadata, videoFileName, musicFileName, totalSize,
                   downloadProgress, files, unlinks, ffmpegState, last, reports, deltas,
                   promptDefaults, written, probe, stageLog>>
TagWriteCallback(err) ==
    /\ Running /\ tagWrite = "pending"
    /\ IF err
       THEN /\ tagWrite' = "failed"
            /\ warning("Failed to write mp3 metadata.")
       ELSE /\ tagWrite' = "ok"
            /\ UNCHANGED printed
    /\ metadataCompleted' = Resolve(metadataCompleted)
    /\ UNCHANGED <<args, intermediate, exit, ytdlState, downloadCompleted,
                   convertCompleted, data, received, videoMetadata, videoFileName,
                   musicFileName, totalSize, downloadProgress, files, unlinks,
                   ffmpegState, last, reports, deltas, promptDefaults, written, probe,
                   stageLog>>

----------------------------------------------------------------------------
(* The continuation of metadataCompleted, lines 144-156 *)

MetadataThen ==
    /\ Running /\ ThenReady(metadataCompleted)
    /\ metadataCompleted' = "delivered"
    /\ stageLog' = Append(stageLog, "Reporting")
    /\ printed' = Append(printed, <<"Conversion Completed!">>)
    /\ probe' = "pending"
    /\ UNCHANGED <<args, intermediate, exit, ytdlState, downloadCompleted,
                   convertCompleted, data, received, videoMetadata, videoFileName,
                   musicFileName, totalSize, downloadProgress, files, unlinks,
                   ffmpegState, last, reports, deltas, promptDefaults, written, tagWrite>>

\* lines 146-155: the callback of ffProbe; nothing is left to run after it, and the
\* process ends with status 0
ProbeCallback(err) ==
    /\ Running /\ probe = "pending"
    /\ probe' = "done"
    /\ printed' = Append(printed, IF err THEN <<"Unable to read mp3 file">> ELSE <<"SUMMARY">>)
    /\ stageLog' = Append(stageLog, "Done")
    /\ exit' = Some(0)
    /\ UNCHANGED <<args, intermediate, ytdlState, downloadCompleted, convertCompleted,
                   metadataCompleted, data, received, videoMetadata, videoFileName,
                   musicFileName, totalSize, downloadProgress, files, unlinks,
                   ffmpegState, last, reports, deltas, promptDefaults, written, tagWrite>>

----------------------------------------------------------------------------
(* The whole program *)

Next ==
    \/ MissingUrl
    \/ StartDownload
    \/ \E t \in PipelineTitles : YtdlInfo(t)
    \/ \E h \in ContentLengths : YtdlResponse(h)
    \/ \E c \in ChunkInputs : YtdlData(c, MaxChunks)
    \/ YtdlEnd
    \/ YtdlError
    \/ DownloadThen
    \/ \E p \in PercentInputs : FfmpegProgress(p, MaxPipelineReports)
    \/ FfmpegEnd
    \/ FfmpegError
    \/ ConvertThen
    \/ \E err \in BOOLEAN : TagWriteCallback(err)
    \/ MetadataThen
    \/ \E err \in BOOLEAN : ProbeCallback(err)

Spec == Init /\ [][Next]_vars

----------------------------------------------------------------------------
(* The program taken up where the transcoder runs, and where it has ended *)

InitAfterDownload(titles, keeps) ==
    /\ args = <<"url">>
    /\ intermediate \in keeps
    /\ exit = None
    /\ printed = <<<<"HEADER">>>>
    /\ ytdlState = "ended"
    /\ downloadCompleted = "delivered"
    /\ metadataCompleted = "pending"
    /\ data = <<0>>
    /\ received = <<<<0>>>>
    /\ videoMetadata \in {Some([title |-> t]) : t \in titles}
    /\ videoFileName = Some(Path(VideoDir(intermediate), videoMetadata[1].title, ".mp4"))
    /\ musicFileName = Some(Path("", videoMetadata[1].title, ".mp3"))
    /\ totalSize = Some(3)
    /\ downloadProgress = [format |-> "DL", total |-> Some(3), curr |-> 1]
    /\ last = 0
    /\ reports = <<>>
    /\ deltas = <<>>
    /\ promptDefaults = None
    /\ written = None
    /\ tagWrite = "none"
    /\ probe = "none"
    /\ stageLog = <<"Idle", "Fetching", "Transcoding">>

InitTranscoding ==
    /\ InitAfterDownload({<<"a", "b">>}, {FALSE})
    /\ convertCompleted = "pending"
    /\ ffmpegState = "running"
    /\ files = {[path |-> videoFileName[1], bytes |-> data]}
    /\ unlinks = <<>>

InitConverted(titles) ==
    /\ InitAfterDownload(titles, BOOLEAN)
    /\ convertCompleted = "resolved"
    /\ ffmpegState = "ended"
    /\ files = {[path |-> musicFileName[1], bytes |-> Transcoded]}
                 \cup (IF intermediate
                       THEN {[path |-> videoFileName[1], bytes |-> data]} ELSE {})
    /\ unlinks = IF intermediate THEN <<>> ELSE <<videoFileName[1]>>

NextProgress ==
    \/ \E p \in PercentInputs : FfmpegProgress(p, MaxReports)
    \/ FfmpegEnd

ProgressSpec == InitTranscoding /\ [][NextProgress]_vars

NextMeta ==
    \/ ConvertThen
    \/ \E err \in BOOLEAN : TagWriteCallback(err)
    \/ MetadataThen
    \/ \E err \in BOOLEAN : ProbeCallback(err)

MetaSpec == InitConverted(AllTitles) /\ [][NextMeta]_vars

\* q calls the continuation of metadataCompleted in a later turn of the event loop
\* once the deferred is resolved
FairMetaSpec ==
    /\ InitConverted(PipelineTitles)
    /\ [][NextMeta]_vars
    /\ WF_vars(MetadataThen)

----------------------------------------------------------------------------
(* Properties *)

Range(s) == {s[i] : i \in DOMAIN s}

RECURSIVE Flatten(_)
Flatten(chunks) ==
    IF chunks = <<>> THEN <<>> ELSE chunks[1] \o Flatten(Tail(chunks))

RECURSIVE SumLen(_)
SumLen(chunks) ==
    IF chunks = <<>> THEN 0 ELSE Len(chunks[1]) + SumLen(Tail(chunks))

RECURSIVE Sum(_)
Sum(ns) == IF ns = <<>> THEN 0 ELSE ns[1] + Sum(Tail(ns))

Printed(line) == \E i \in DOMAIN printed : printed[i] = line

\* the class of outcome a finished process is in, and the status the code ends each with
OutcomeClasses == {"success", "usage", "fetch", "convert"}
OutcomeClass ==
    CASE Stage = "FetchFailed" -> "fetch"
      [] Stage = "ConvertFailed" -> "convert"
      [] Stage = "Done" -> "success"
      [] OTHER -> "usage"

\* C1: the exit statuses of success, a missing url, a fetch failure and a conversion
\* failure are pairwise distinct: the status a process ended with is the status of
\* no other class of outcome.
C1_ExitStatusesDistinct ==
    exit # None =>
        \A c \in OutcomeClasses \ {OutcomeClass} : exit[1] # ExitStatus(c)

StageEdges ==
    {<<"Idle", "Fetching">>, <<"Fetching", "Transcoding">>,
     <<"Transcoding", "TaggingMetadata">>, <<"TaggingMetadata", "Reporting">>,
     <<"Reporting", "Done">>, <<"Fetching", "FetchFailed">>,
     <<"Transcoding", "ConvertFailed">>}

StageSignalResolved(stage) ==
    CASE stage = "Transcoding" -> downloadCompleted # "pending"
      [] stage = "TaggingMetadata" -> convertCompleted # "pending"
      [] stage = "Reporting" -> metadataCompleted # "pending"
      [] OTHER -> TRUE

C2_Step ==
    stageLog' # stageLog =>
        /\ stageLog' = Append(stageLog, Stage')
        /\ <<Stage, Stage'>> \in StageEdges
        /\ Stage' \notin Range(stageLog)
        /\ StageSignalResolved(Stage')

\* C2: every change of stage is one step forward along Idle, Fetching, Transcoding,
\* TaggingMetadata, Reporting, Done, or a step from Fetching to FetchFailed or from
\* Transcoding to ConvertFailed; it enters a stage not entered before, and only after
\* the completion signal of the stage before it was resolved.
C2_StagesOnlyMoveForward == [][C2_Step]_vars

C2_Witness ==
    stageLog = <<"Idle", "Fetching", "Transcoding", "TaggingMetadata", "Reporting", "Done">>

\* C3: after a fetch failure an error is printed, the process has ended with the
\* status of error(), no file exists, and no later stage has run, also when chunks
\* had been received.
C3_FetchFailureLeavesNothing ==
    Stage = "FetchFailed" =>
        /\ exit = Some(EXIT_ERROR)
        /\ printed[Len(printed)] = <<"ERROR", "Unable to download video from youtube.">>
        /\ files = {}
        /\ videoFileName = None /\ musicFileName = None
        /\ downloadCompleted = "pending"
        /\ ffmpegState = "idle" /\ tagWrite = "none" /\ probe = "none"
        /\ Range(stageLog) = {"Idle", "Fetching", "FetchFailed"}

C3_Witness == Stage = "FetchFailed" /\ Len(data) > 0

\* C4: with the keep flag the intermediate file is never deleted; without it the
\* file is deleted once, by the transcoder's 'end' handler: it is there while the
\* transcoder runs, and gone, after one unlink, from the 'end' on and so before tagging.
C4_IntermediateDeletedOnce ==
    /\ Len(unlinks) <= 1
    /\ unlinks # <<>> => ffmpegState = "ended" /\ unlinks[1] = videoFileName[1]
    /\ ffmpegState \in {"running", "errored"} => Exists(files, videoFileName[1])
    /\ intermediate =>
          /\ unlinks = <<>>
          /\ ffmpegState = "ended" => Exists(files, videoFileName[1])
    /\ ~intermediate /\ ffmpegState = "ended" =>
          Len(unlinks) = 1 /\ ~Exists(files, videoFileName[1])
    /\ ~intermediate /\ Stage \in {"TaggingMetadata", "Reporting", "Done"} =>
          Len(unlinks) = 1

C4_Witness == Stage = "Done" /\ ~intermediate /\ Len(unlinks) = 1

\* C5: the tag set given to ffMetadata.write holds no field whose value is null,
\* undefined or the empty string.
C5_NoEmptyFieldWritten ==
    written # None => \A f \in DOMAIN written[1] : ~Falsy(written[1][f])

\* C6: when the tag write fails, a warning is printed, the process goes on,
\* metadataCompleted is resolved, and the reporting stage is reached, as it is after
\* a tag write that succeeded.
C6_TagWriteFailureNotFatal ==
    /\ [](tagWrite = "failed" =>
            /\ Printed(<<"WARNING", "Failed to write mp3 metadata.">>)
            /\ metadataCompleted # "pending"
            /\ exit = None \/ Stage = "Done")
    /\ (tagWrite = "failed") ~> ("Reporting" \in Range(stageLog))
    /\ (tagWrite = "ok") ~> ("Reporting" \in Range(stageLog))

C6_Witness == tagWrite = "failed" /\ Stage = "Reporting"

HyphenAt(t) == {j \in 1..Len(t) : t[j] = "-"}
Left(t, j) == SubSeq(t, 1, j - 1)
Right(t, j) == SubSeq(t, j + 1, Len(t))

\* C7 as stated: for every title <left>-<right> the default artist is <left> and the
\* default title is <right>, both trimmed; for a title without '-' the default title
\* is the title and there is no default artist.
C7_DefaultsFollowSeparator ==
    promptDefaults # None =>
        LET t == videoMetadata[1].title
            d == promptDefaults[1]
        IN  /\ \A j \in HyphenAt(t) :
                   /\ d.artist = Some(Trim(Left(t, j)))
                   /\ d.title = Some(Trim(Right(t, j)))
            /\ HyphenAt(t) = {} => d.title = Some(t) /\ d.artist = None

PlainPart(s) == s # <<>> /\ AllInClass(s, 1, Len(s))

\* C7 amended: for every title with exactly one '-' whose left and right parts are
\* not empty and hold no white space other than spaces, the default artist is the
\* left part and the default title the right part, both trimmed; for a title without
\* '-' the default title is the title and there is no default artist.
C7_DefaultsFollowSingleSeparator ==
    promptDefaults # None =>
        LET t == videoMetadata[1].title
            d == promptDefaults[1]
        IN  /\ \A j \in HyphenAt(t) :
                   HyphenAt(t) = {j} /\ PlainPart(Left(t, j)) /\ PlainPart(Right(t, j)) =>
                       /\ d.artist = Some(Trim(Left(t, j)))
                       /\ d.title = Some(Trim(Right(t, j)))
            /\ HyphenAt(t) = {} => d.title = Some(t) /\ d.artist = None

C7_Witness ==
    /\ promptDefaults # None
    /\ videoMetadata[1].title = <<"a", " ", "-", "a">>
    /\ promptDefaults[1].artist = Some(<<"a">>)

\* C8: the buffer is the chunks received so far joined in the order they came, its
\* length is the sum of their lengths, and it is what the intermediate file holds
\* when the transcoder starts on it.
C8_BufferIsConcatenation ==
    /\ data = Flatten(received)
    /\ Len(data) = SumLen(received)
    /\ ffmpegState = "running" =>
          [path |-> videoFileName[1], bytes |-> Flatten(received)] \in files

C8_Witness ==
    /\ ffmpegState = "running"
    /\ received = <<<<0>>, <<1, 0>>>>

Scenario == <<0, 10, 10, 24, 24, 24, 200>>
ScenarioDeltas == <<0, 5, 0, 7, 0, 0, 88>>

PreviousCeil(i) == IF i = 1 THEN 0 ELSE Ceil(reports[i - 1])

\* C9 as stated: each delta is the ceiling of the percent reported minus the ceiling
\* reported before it (0 at the start), no delta is negative, the deltas add up to
\* the ceiling of the latest percent, and 0,5,5,12,12,12,100 gives 0,5,0,7,0,0,88.
C9_DeltasNeverNegative ==
    /\ Len(deltas) = Len(reports)
    /\ \A i \in DOMAIN deltas :
          /\ deltas[i] = Ceil(reports[i]) - PreviousCeil(i)
          /\ deltas[i] >= 0
    /\ reports # <<>> => Sum(deltas) = Ceil(reports[Len(reports)])
    /\ reports = Scenario => deltas = ScenarioDeltas

\* C9 amended: each delta is the ceiling of the percent reported minus the ceiling
\* reported before it (0 at the start), a delta is not negative when the percent
\* reported is not below the one reported before it, the deltas add up to the
\* ceiling of the latest percent, and 0,5,5,12,12,12,100 gives 0,5,0,7,0,0,88.
C9_DeltasFollowCeiling ==
    /\ Len(deltas) = Len(reports)
    /\ \A i \in DOMAIN deltas :
          /\ deltas[i] = Ceil(reports[i]) - PreviousCeil(i)
          /\ (i = 1 \/ reports[i] >= reports[i - 1]) => deltas[i] >= 0
    /\ reports # <<>> => Sum(deltas) = Ceil(reports[Len(reports)])
    /\ reports = Scenario => deltas = ScenarioDeltas

C9_Witness == reports = Scenario /\ deltas = ScenarioDeltas

\* C10: once the continuation of downloadCompleted has run, the video metadata had
\* been received, and the two file names were made from its title.
C10_MetadataBeforeTranscoding ==
    "Transcoding" \in Range(stageLog) =>
        /\ videoMetadata # None
        /\ videoFileName = Some(Path(VideoDir(intermediate), videoMetadata[1].title, ".mp4"))
        /\ musicFileName = Some(Path("", videoMetadata[1].title, ".mp3"))

C10_Witness == Stage = "Transcoding" /\ ffmpegState = "running" /\ Len(received) > 0

====
